---- MODULE Spec2Model ----
(***************************************************************************)
(* A model of langcheck's model-backed scoring pipeline                    *)
(* (AutoModelForSequenceClassificationScorer, metrics/scorer/hf_models.py) *)
(* and of the lazily loaded module-level models of                         *)
(* eval/reference_free_text_quality.py (sentiment, fluency, toxicity).     *)
(*                                                                         *)
(* Abstractions of the external libraries:                                 *)
(*  - a text is represented by its token count n; tokenizer.encode gives   *)
(*    n token ids, all equal to n, so that two different texts stay        *)
(*    different after truncation;                                          *)
(*  - softmax of the logits of the model is a fixed function from an encoded *)
(*    row to a probability vector over NumClasses classes, in tenths;      *)
(*  - class weights are in tenths, so scores are in hundredths and the     *)
(*    arithmetic is exact (float32 rounding is not modelled);              *)
(*  - Optional[float] is a sequence: None is <<>>, the number v is <<v>>.  *)
(***************************************************************************)
EXTENDS Integers, Sequences, FiniteSets, TLC

\* Bounds of the model.
MaxBatch == 2
MaxTokens == 3
MaxLimit == 2

\* The sentiment model has three classes: [negative, neutral, positive].
NumClasses == 3

VARIABLES
    \* ---- AutoModelForSequenceClassificationScorer ----
    pc,                 \* "new", "ready", "tokenized", "scored", "error"
    overflow_strategy,  \* self.overflow_strategy
    max_input_length,   \* self.max_input_length
    class_weights,      \* self.class_weights
    inputs,             \* the batch of texts of the current call
    tokens,             \* what _tokenize returned: (BatchEncoding, list[bool])
    scores,             \* what _score_tokens returned for the whole batch
    error,              \* the exception the current call raised, or "none"
    inferences,         \* number of self.model(...) runs in the current call
    cursor,             \* chunked scoring: end index of the last slice scored
    chunked,            \* chunked scoring: concatenated results of the slices
    \* ---- eval/reference_free_text_quality.py ----
    tokenizer_g,        \* _sentiment_tokenizer, _fluency_tokenizer (0 is None)
    model_g,            \* _sentiment_model, _fluency_model, _toxicity_model
    calls,              \* per thread: position in the metric function it runs
    calls_made,         \* per thread: number of calls started
    tok_loads,          \* per metric: tokenizers loaded so far
    model_loads,        \* per metric: models loaded so far
    model_tries         \* per metric: model loads attempted so far

scorer_vars == <<pc, overflow_strategy, max_input_length, class_weights, inputs,
                 tokens, scores, error, inferences, cursor, chunked>>

loader_vars == <<tokenizer_g, model_g, calls, calls_made, tok_loads,
                 model_loads, model_tries>>

vars == <<scorer_vars, loader_vars>>

------------------------------------------------------------------------------
\* Python helpers

None == <<>>
Some(v) == <<v>>

Min(a, b) == IF a <= b THEN a ELSE b
Max(a, b) == IF a >= b THEN a ELSE b

\* s[start:end] for a Python list (0-based, half-open, clamped), start,end >= 0
PySlice(s, start, end) ==
    SubSeq(s, Min(start, Len(s)) + 1, Min(end, Len(s)))

\* [x] * n
Repeat(x, n) == [i \in 1..n |-> x]

\* all(flags)
All(flags) == \A i \in 1..Len(flags) : flags[i]

RECURSIVE SeqMax(_)
SeqMax(s) == IF s = <<>> THEN 0 ELSE Max(Head(s), SeqMax(Tail(s)))

------------------------------------------------------------------------------
\* The tokenizer and the classification model (external collaborators)

Strategies == {"truncate", "raise", "nullify", "ignore"}
WeightVals == {0, 5, 10}
Texts == 1..MaxTokens

\* Probability vectors (tenths) the model can answer with.
ProbTable == << <<10, 0, 0>>, <<2, 3, 5>>, <<0, 0, 10>>, <<1, 8, 1>>, <<5, 5, 0>> >>

\* self.tokenizer.encode(input_str): no padding, no truncation
Encode(input_str) == Repeat(input_str, input_str)

\* self.tokenizer(inputs, padding=True, truncation=True, max_length=..):
\* every row cut to max_length, then padded with 0 to the longest row
TokenizerCall(batch, max_length) ==
    LET cut == [i \in 1..Len(batch) |-> PySlice(Encode(batch[i]), 0, max_length)]
        width == SeqMax([i \in 1..Len(batch) |-> Len(cut[i])])
    IN  [input_ids |->
            [i \in 1..Len(batch) |-> cut[i] \o Repeat(0, width - Len(cut[i]))],
         attention_mask |->
            [i \in 1..Len(batch) |->
                Repeat(1, Len(cut[i])) \o Repeat(0, width - Len(cut[i]))]]

EmptyEncoding == [input_ids |-> <<>>, attention_mask |-> <<>>]

RECURSIVE MaskedSum(_, _)
MaskedSum(ids, mask) ==
    IF ids = <<>> THEN 0
    ELSE Head(ids) * Head(mask) + MaskedSum(Tail(ids), Tail(mask))

\* softmax(logits, dim=1) of the logits self.model gives for input_tokens:
\* one probability vector per row, a function of the unmasked token ids of
\* that row alone
ModelProbs(input_tokens) ==
    [r \in 1..Len(input_tokens.input_ids) |->
        ProbTable[(MaskedSum(input_tokens.input_ids[r],
                             input_tokens.attention_mask[r]) % Len(ProbTable)) + 1]]

------------------------------------------------------------------------------
\* AutoModelForSequenceClassificationScorer

\* _validate_inputs with < for <=: an input of exactly max_input_length
\* tokens is taken for too long
ValidateInputsStrict(batch) ==
    [i \in 1..Len(batch) |-> Len(Encode(batch[i])) < max_input_length]

\* _validate_inputs
ValidateInputs(batch) ==
    [i \in 1..Len(batch) |-> Len(Encode(batch[i])) <= max_input_length]

\* _tokenize without the raise of ValueError
TokenizeNoRaise(batch) ==
    LET truncated_tokens == TokenizerCall(batch, max_input_length)
        input_validation_results == ValidateInputs(batch)
    IN  IF overflow_strategy = "truncate"
        THEN [raised |-> "none", input_tokens |-> truncated_tokens,
              validation_results |-> Repeat(TRUE, Len(batch))]
        ELSE IF overflow_strategy # "nullify"
        THEN [raised |-> "AssertionError",
              input_tokens |-> [input_ids |-> <<>>, attention_mask |-> <<>>],
              validation_results |-> <<>>]
        ELSE [raised |-> "none", input_tokens |-> truncated_tokens,
              validation_results |-> input_validation_results]

\* _tokenize without the assert on the strategy
TokenizeNoAssert(batch) ==
    LET truncated_tokens == TokenizerCall(batch, max_input_length)
        input_validation_results == ValidateInputs(batch)
    IN  IF overflow_strategy = "truncate"
        THEN [raised |-> "none", input_tokens |-> truncated_tokens,
              validation_results |-> Repeat(TRUE, Len(batch))]
        ELSE IF overflow_strategy = "raise" /\ ~All(input_validation_results)
        THEN [raised |-> "ValueError",
              input_tokens |-> [input_ids |-> <<>>, attention_mask |-> <<>>],
              validation_results |-> <<>>]
        ELSE [raised |-> "none", input_tokens |-> truncated_tokens,
              validation_results |-> input_validation_results]

\* _tokenize: the returned pair, or the exception raised
Tokenize(batch) ==
    LET truncated_tokens == TokenizerCall(batch, max_input_length)
        input_validation_results == ValidateInputs(batch)
    IN  IF overflow_strategy = "truncate"
        THEN [raised |-> "none", input_tokens |-> truncated_tokens,
              validation_results |-> Repeat(TRUE, Len(batch))]
        ELSE IF overflow_strategy = "raise" /\ ~All(input_validation_results)
        THEN [raised |-> "ValueError", input_tokens |-> EmptyEncoding,
              validation_results |-> <<>>]
        ELSE IF overflow_strategy # "nullify"
        THEN [raised |-> "AssertionError", input_tokens |-> EmptyEncoding,
              validation_results |-> <<>>]
        ELSE [raised |-> "none", input_tokens |-> truncated_tokens,
              validation_results |-> input_validation_results]

\* the loop of _logits_to_scores for one row, after the first k weights
RECURSIVE WeightedSum(_, _)
WeightedSum(prob, k) ==
    IF k = 0 THEN 0
    ELSE WeightedSum(prob, k - 1) + prob[k] * class_weights[k]

\* _logits_to_scores: probs[:, i] raises IndexError once i reaches the number
\* of classes; otherwise every weight given is used
LogitsToScores(probs) ==
    IF Len(class_weights) > NumClasses
    THEN [raised |-> "IndexError", scores |-> <<>>]
    ELSE [raised |-> "none",
          scores |-> [r \in 1..Len(probs) |->
                        Some(WeightedSum(probs[r], Len(class_weights)))]]

\* _score_tokens reading the flag one position early (Python's index -1 is
\* the last flag)
ScoreTokensFlagShifted(toks) ==
    LET out == LogitsToScores(ModelProbs(toks.input_tokens))
        n == Len(toks.validation_results)
    IN  IF out.raised # "none" THEN out
        ELSE [raised |-> "none",
              scores |-> [i \in 1..Len(out.scores) |->
                            IF toks.validation_results[IF i = 1 THEN n ELSE i - 1]
                            THEN out.scores[i] ELSE None]]

\* _score_tokens
ScoreTokens(toks) ==
    LET out == LogitsToScores(ModelProbs(toks.input_tokens))
    IN  IF out.raised # "none" THEN out
        ELSE [raised |-> "none",
              scores |-> [i \in 1..Len(out.scores) |->
                            IF toks.validation_results[i]
                            THEN out.scores[i] ELSE None]]

\* _slice_tokens cutting the flags from the front of the list instead of
\* from start_idx
SliceTokensFlagsFromFront(toks, start_idx, end_idx) ==
    [raised |-> toks.raised,
     input_tokens |->
        [key \in DOMAIN toks.input_tokens |->
            PySlice(toks.input_tokens[key], start_idx, end_idx)],
     validation_results |->
        PySlice(toks.validation_results, 0, end_idx - start_idx)]

\* _slice_tokens
SliceTokens(toks, start_idx, end_idx) ==
    [raised |-> toks.raised,
     input_tokens |->
        [key \in DOMAIN toks.input_tokens |->
            PySlice(toks.input_tokens[key], start_idx, end_idx)],
     validation_results |-> PySlice(toks.validation_results, start_idx, end_idx)]

NoTokens ==
    [raised |-> "none", input_tokens |-> EmptyEncoding, validation_results |-> <<>>]

------------------------------------------------------------------------------
\* Actions of the scorer

\* The class_weights a scorer is built with: one weight too few, one per
\* class, or one too many. A weight past the model's classes is never
\* multiplied (the IndexError comes first), so one value stands for it.
WeightChoices(len) ==
    {w \in [1..len -> WeightVals] : \A i \in (NumClasses + 1)..len : w[i] = 10}

\* __init__: no argument is validated
Construct ==
    /\ pc = "new"
    /\ \E strategy \in Strategies, len \in (NumClasses - 1)..(NumClasses + 1) :
         \E weights \in WeightChoices(len) :
            /\ overflow_strategy' = strategy
            /\ class_weights' = weights
            /\ \/ \E limit \in 1..MaxLimit : max_input_length' = limit
               \/ max_input_length' = MaxLimit  \* model.config.max_position_embeddings
    /\ pc' = "ready"
    /\ UNCHANGED <<inputs, tokens, scores, error, inferences, cursor, chunked>>
    /\ UNCHANGED loader_vars

\* a scoring call, first half: _tokenize(inputs)
TokenizeCall ==
    /\ pc = "ready"
    /\ \E n \in 1..MaxBatch : \E batch \in [1..n -> Texts] :
         LET t == Tokenize(batch)
         IN  /\ inputs' = batch
             /\ tokens' = t
             /\ error' = t.raised
             /\ pc' = IF t.raised = "none" THEN "tokenized" ELSE "error"
    /\ UNCHANGED <<overflow_strategy, max_input_length, class_weights, scores,
                   inferences, cursor, chunked>>
    /\ UNCHANGED loader_vars

\* a scoring call, second half: _score_tokens(tokens) on the whole batch
ScoreCall ==
    /\ pc = "tokenized"
    /\ LET s == ScoreTokens(tokens)
       IN  /\ scores' = s.scores
           /\ error' = s.raised
           /\ pc' = IF s.raised = "none" THEN "scored" ELSE "error"
    /\ inferences' = inferences + 1
    /\ UNCHANGED <<overflow_strategy, max_input_length, class_weights, inputs,
                   tokens, cursor, chunked>>
    /\ UNCHANGED loader_vars

\* the same batch scored again in chunks: the next non-empty slice,
\* _score_tokens(_slice_tokens(tokens, cursor, end)), its result appended
ScoreChunk ==
    /\ pc = "scored"
    /\ \E end \in (cursor + 1)..Len(inputs) :
         LET s == ScoreTokens(SliceTokens(tokens, cursor, end))
         IN  /\ chunked' = chunked \o s.scores
             /\ cursor' = end
    /\ inferences' = inferences + 1
    /\ UNCHANGED <<pc, overflow_strategy, max_input_length, class_weights,
                   inputs, tokens, scores, error>>
    /\ UNCHANGED loader_vars

\* the call is over (returned or raised); the scorer takes the next batch
NextCall ==
    /\ pc \in {"scored", "error"}
    /\ pc' = "ready"
    /\ inputs' = <<>>
    /\ tokens' = NoTokens
    /\ scores' = <<>>
    /\ error' = "none"
    /\ inferences' = 0
    /\ cursor' = 0
    /\ chunked' = <<>>
    /\ UNCHANGED <<overflow_strategy, max_input_length, class_weights>>
    /\ UNCHANGED loader_vars

------------------------------------------------------------------------------
\* eval/reference_free_text_quality.py: sentiment, fluency, toxicity

MaxCalls == 3

Metrics == {"sentiment", "fluency", "toxicity"}
MainThread == "main"
Threads == {MainThread, "worker"}

\* toxicity keeps one global (a Detoxify model), the others a pair
HasTokenizer(m) == m # "toxicity"

Idle(result) ==
    [at |-> "idle", metric |-> "none", result |-> result, tok |-> 0, mdl |-> 0]

\* the condition of the if that guards the load
NeedsLoad(m) ==
    IF HasTokenizer(m)
    THEN tokenizer_g[m] = 0 \/ model_g[m] = 0
    ELSE model_g[m] = 0

\* the if loading only what is missing: a stored tokenizer is kept
AfterCheckKeepsTokenizer(m) ==
    IF NeedsLoad(m)
    THEN (IF HasTokenizer(m) /\ tokenizer_g[m] = 0
          THEN "load_tokenizer" ELSE "load_model")
    ELSE (IF HasTokenizer(m) THEN "use_tokenizer" ELSE "use_model")

\* where the if sends the call
AfterCheck(m) ==
    IF NeedsLoad(m)
    THEN (IF HasTokenizer(m) THEN "load_tokenizer" ELSE "load_model")
    ELSE (IF HasTokenizer(m) THEN "use_tokenizer" ELSE "use_model")

\* what a failed load leaves in the call's record: the exception propagates
Raised(c) == [c EXCEPT !.at = "idle", !.result = "raised"]

\* a thread enters sentiment(), fluency() or toxicity()
Call(t) ==
    /\ calls[t].at = "idle"
    /\ calls_made[t] < MaxCalls
    /\ \E m \in Metrics :
         calls' = [calls EXCEPT ![t] =
                     [at |-> "check", metric |-> m, result |-> "running",
                      tok |-> 0, mdl |-> 0]]
    /\ calls_made' = [calls_made EXCEPT ![t] = @ + 1]
    /\ UNCHANGED <<tokenizer_g, model_g, tok_loads, model_loads, model_tries>>
    /\ UNCHANGED scorer_vars

\* if _x_tokenizer is None or _x_model is None:   /   if _toxicity_model is None:
Check(t) ==
    /\ calls[t].at = "check"
    /\ calls' = [calls EXCEPT ![t].at = AfterCheck(calls[t].metric)]
    /\ UNCHANGED <<tokenizer_g, model_g, calls_made, tok_loads, model_loads,
                   model_tries>>
    /\ UNCHANGED scorer_vars

\* _x_tokenizer = AutoTokenizer.from_pretrained(path)
LoadTokenizer(t) ==
    /\ calls[t].at = "load_tokenizer"
    /\ LET m == calls[t].metric
       IN  /\ tokenizer_g' = [tokenizer_g EXCEPT ![m] = tok_loads[m] + 1]
           /\ tok_loads' = [tok_loads EXCEPT ![m] = @ + 1]
    /\ calls' = [calls EXCEPT ![t].at = "load_model"]
    /\ UNCHANGED <<model_g, calls_made, model_loads, model_tries>>
    /\ UNCHANGED scorer_vars

\* AutoTokenizer.from_pretrained raises
LoadTokenizerFails(t) ==
    /\ calls[t].at = "load_tokenizer"
    /\ calls' = [calls EXCEPT ![t] = Raised(@)]
    /\ UNCHANGED <<tokenizer_g, model_g, calls_made, tok_loads, model_loads,
                   model_tries>>
    /\ UNCHANGED scorer_vars

\* _x_model = AutoModelForSequenceClassification.from_pretrained(path)
\* _toxicity_model = Detoxify('original')
LoadModel(t) ==
    /\ calls[t].at = "load_model"
    /\ LET m == calls[t].metric
       IN  /\ model_g' = [model_g EXCEPT ![m] = model_loads[m] + 1]
           /\ model_loads' = [model_loads EXCEPT ![m] = @ + 1]
           /\ model_tries' = [model_tries EXCEPT ![m] = @ + 1]
           /\ calls' = [calls EXCEPT ![t].at =
                          IF HasTokenizer(m) THEN "use_tokenizer" ELSE "use_model"]
    /\ UNCHANGED <<tokenizer_g, calls_made, tok_loads>>
    /\ UNCHANGED scorer_vars

\* the model's from_pretrained (or Detoxify) raises
LoadModelFails(t) ==
    /\ calls[t].at = "load_model"
    /\ model_tries' = [model_tries EXCEPT ![calls[t].metric] = @ + 1]
    /\ calls' = [calls EXCEPT ![t] = Raised(@)]
    /\ UNCHANGED <<tokenizer_g, model_g, calls_made, tok_loads, model_loads>>
    /\ UNCHANGED scorer_vars

\* input_tokens = _x_tokenizer(generated_outputs, ...)
UseTokenizer(t) ==
    /\ calls[t].at = "use_tokenizer"
    /\ calls' = [calls EXCEPT ![t].at = "use_model",
                              ![t].tok = tokenizer_g[calls[t].metric]]
    /\ UNCHANGED <<tokenizer_g, model_g, calls_made, tok_loads, model_loads,
                   model_tries>>
    /\ UNCHANGED scorer_vars

\* _x_model on input_tokens / _toxicity_model.predict(...), then return
UseModel(t) ==
    /\ calls[t].at = "use_model"
    /\ calls' = [calls EXCEPT ![t].at = "idle",
                              ![t].result = "returned",
                              ![t].mdl = model_g[calls[t].metric]]
    /\ UNCHANGED <<tokenizer_g, model_g, calls_made, tok_loads, model_loads,
                   model_tries>>
    /\ UNCHANGED scorer_vars


Init ==
    /\ pc = "new"
    /\ overflow_strategy = "nullify"
    /\ max_input_length = MaxLimit
    /\ class_weights = <<>>
    /\ inputs = <<>>
    /\ tokens = NoTokens
    /\ scores = <<>>
    /\ error = "none"
    /\ inferences = 0
    /\ cursor = 0
    /\ chunked = <<>>
    /\ tokenizer_g = [m \in Metrics |-> 0]
    /\ model_g = [m \in Metrics |-> 0]
    /\ calls = [t \in Threads |-> Idle("none")]
    /\ calls_made = [t \in Threads |-> 0]
    /\ tok_loads = [m \in Metrics |-> 0]
    /\ model_loads = [m \in Metrics |-> 0]
    /\ model_tries = [m \in Metrics |-> 0]

Next == Construct \/ TokenizeCall \/ ScoreCall \/ ScoreChunk \/ NextCall

Spec == Init /\ [][Next]_vars

\* the metric functions called from several threads
Step(t) ==
    \/ Call(t)
    \/ Check(t)
    \/ LoadTokenizer(t)
    \/ LoadTokenizerFails(t)
    \/ LoadModel(t)
    \/ LoadModelFails(t)
    \/ UseTokenizer(t)
    \/ UseModel(t)

NextThreads == \E t \in Threads : Step(t)

SpecThreads == Init /\ [][NextThreads]_vars

\* the metric functions called from one thread only
NextSeq == Step(MainThread)

SpecSeq == Init /\ [][NextSeq]_vars

------------------------------------------------------------------------------
\* Properties of the scorer (specification Spec)

TokenCount(text) == Len(Encode(text))

IsNumber(score) == Len(score) = 1

\* the call went through _tokenize (it returned or raised)
Called == pc \in {"tokenized", "scored", "error"} /\ inputs # <<>>

\* what the scorer gives for one text scored in a batch of its own
AloneTokens(text) == Tokenize(<<text>>)
AloneScore(text) == ScoreTokens(AloneTokens(text)).scores[1]

\* C1: whenever a scoring call returns, the result has one entry per input
\* and entry i (its validity flag and its score) is that of texts[i], i.e.
\* what texts[i] gets when it is scored in a batch of its own.
C1_ResultAlignedWithInputs ==
    pc = "scored" =>
        /\ Len(scores) = Len(inputs)
        /\ Len(tokens.validation_results) = Len(inputs)
        /\ \A i \in 1..Len(inputs) :
             /\ tokens.validation_results[i]
                    = AloneTokens(inputs[i]).validation_results[1]
             /\ scores[i] = AloneScore(inputs[i])

C1_Witness ==
    /\ pc = "scored"
    /\ Len(inputs) = 2
    /\ inputs[1] > inputs[2]
    /\ scores[1] = None
    /\ IsNumber(scores[2])
    /\ scores[2] # <<0>>

\* C2: in a returned result, entry i is None exactly when the strategy is
\* 'nullify' and texts[i] has more than max_input_length tokens; every other
\* entry is a number.
C2_NoneOnlyForNullifiedOverflow ==
    pc = "scored" =>
        \A i \in 1..Len(scores) :
            /\ scores[i] = None <=>
                  (overflow_strategy = "nullify"
                     /\ TokenCount(inputs[i]) > max_input_length)
            /\ scores[i] # None => IsNumber(scores[i])

C2_Witness ==
    /\ pc = "scored"
    /\ overflow_strategy = "nullify"
    /\ Len(inputs) >= 2
    /\ TokenCount(inputs[1]) = max_input_length
    /\ IsNumber(scores[1])
    /\ TokenCount(inputs[2]) > max_input_length
    /\ scores[2] = None

\* under 'truncate' an input over the limit is scored as a number
C2_TruncateReached ==
    /\ pc = "scored"
    /\ overflow_strategy = "truncate"
    /\ \E i \in 1..Len(inputs) :
         TokenCount(inputs[i]) > max_input_length /\ IsNumber(scores[i])

\* C3: under 'raise', a batch with at least one input over the limit fails
\* with the input-too-long error (ValueError) before any inference, and no
\* score is returned for any input of the batch.
C3_RaiseRejectsWholeBatch ==
    (/\ Called
     /\ overflow_strategy = "raise"
     /\ \E i \in 1..Len(inputs) : TokenCount(inputs[i]) > max_input_length)
    => /\ pc = "error"
       /\ error = "ValueError"
       /\ inferences = 0
       /\ scores = <<>>
       /\ chunked = <<>>

C3_Witness ==
    /\ pc = "error"
    /\ error = "ValueError"
    /\ overflow_strategy = "raise"
    /\ Len(inputs) >= 2
    /\ TokenCount(inputs[1]) <= max_input_length
    /\ TokenCount(inputs[2]) > max_input_length

\* C4: under 'raise', a batch whose inputs all fit is tokenized (every
\* validity flag true) and every input gets a number.
C4_RaiseAcceptsFittingBatch ==
    (/\ Called
     /\ overflow_strategy = "raise"
     /\ \A i \in 1..Len(inputs) : TokenCount(inputs[i]) <= max_input_length)
    => /\ tokens.raised = "none"
       /\ Len(tokens.validation_results) = Len(inputs)
       /\ All(tokens.validation_results)
       /\ pc = "scored" => \A i \in 1..Len(scores) : IsNumber(scores[i])

\* C5: a scorer whose overflow_strategy is none of 'truncate', 'raise',
\* 'nullify' fails every scoring call, whatever the batch, before any
\* inference; it never returns tokens or scores.
C5_UnknownStrategyRejected ==
    (Called /\ overflow_strategy \notin {"truncate", "raise", "nullify"})
    => /\ pc = "error"
       /\ error = "AssertionError"
       /\ inferences = 0
       /\ scores = <<>>

C5_Witness ==
    /\ pc = "error"
    /\ overflow_strategy = "ignore"
    /\ Len(inputs) >= 2
    /\ TokenCount(inputs[1]) <= max_input_length
    /\ TokenCount(inputs[2]) > max_input_length

\* C6: a scorer whose class_weights has not one weight per model class never
\* returns scores.
C6_WeightLengthMismatchRejected ==
    (pc # "new" /\ Len(class_weights) # NumClasses) => pc # "scored"

RECURSIVE SeqMin(_)
SeqMin(s) ==
    IF Len(s) = 1 THEN Head(s) ELSE Min(Head(s), SeqMin(Tail(s)))

RECURSIVE SeqSum(_)
SeqSum(s) == IF s = <<>> THEN 0 ELSE Head(s) + SeqSum(Tail(s))

\* probabilities are in tenths: a probability vector sums to this
ProbUnit == SeqSum(ProbTable[1])

\* C8: every score lies in [min(class_weights), max(class_weights)]
\* (scores are in units of 1 / (ProbUnit * 10), weights in tenths).
C8_ScoreWithinWeightRange ==
    pc = "scored" =>
        \A i \in 1..Len(scores) :
            IsNumber(scores[i]) =>
                /\ ProbUnit * SeqMin(class_weights) <= scores[i][1]
                /\ scores[i][1] <= ProbUnit * SeqMax(class_weights)

\* the dot product over every class, for one weight per class
RECURSIVE Dot(_, _, _)
Dot(prob, weights, c) ==
    IF c > NumClasses THEN 0
    ELSE prob[c] * weights[c] + Dot(prob, weights, c + 1)

\* With one weight per class the score is the dot product and is in range.
OneWeightPerClassGivesDotProduct ==
    (pc = "scored" /\ Len(class_weights) = NumClasses) =>
        LET probs == ModelProbs(tokens.input_tokens)
        IN  \A i \in 1..Len(scores) :
               IsNumber(scores[i]) =>
                  /\ scores[i][1] = Dot(probs[i], class_weights, 1)
                  /\ ProbUnit * SeqMin(class_weights) <= scores[i][1]
                  /\ scores[i][1] <= ProbUnit * SeqMax(class_weights)

\* C9: every slice of a tokenized batch is self-consistent (each encoded
\* array and the flag list have length end - start, item t of the slice is
\* item start + t of the batch), and the results of consecutive slices,
\* concatenated, are the result of the whole batch up to the last split
\* point, None entries included.
C9_SlicesConcatenateToWhole ==
    pc = "scored" =>
        /\ \A start \in 0..Len(inputs) : \A end \in start..Len(inputs) :
             LET part == SliceTokens(tokens, start, end)
             IN  /\ Len(part.validation_results) = end - start
                 /\ \A key \in DOMAIN part.input_tokens :
                       Len(part.input_tokens[key]) = end - start
                 /\ \A t \in 1..(end - start) :
                       /\ part.validation_results[t]
                             = tokens.validation_results[start + t]
                       /\ \A key \in DOMAIN part.input_tokens :
                             part.input_tokens[key][t]
                                = tokens.input_tokens[key][start + t]
        /\ chunked = PySlice(scores, 0, cursor)
        /\ cursor = Len(inputs) => chunked = scores

\* a batch scored whole and then in two slices, a None entry in the second
C9_Witness ==
    /\ pc = "scored"
    /\ Len(inputs) = 2
    /\ cursor = 2
    /\ inferences = 3
    /\ chunked = scores
    /\ IsNumber(chunked[1])
    /\ chunked[2] = None

\* weights [0, 0.5, 1] and probabilities [0.2, 0.3, 0.5] give 0.65
WeightedExampleReached ==
    /\ pc = "scored"
    /\ class_weights = <<0, 5, 10>>
    /\ ModelProbs(tokens.input_tokens)[1] = <<2, 3, 5>>
    /\ scores[1] = <<65>>

------------------------------------------------------------------------------
\* Properties of the lazily loaded models (SpecThreads, SpecSeq)

Returned(t) == calls[t].at = "idle" /\ calls[t].result = "returned"

\* C7: for every metric the model is loaded at most once, and the calls that
\* returned used the same (tokenizer, model) instances.
C7_AtMostOneLoadPerKey ==
    /\ \A m \in Metrics : model_loads[m] <= 1
    /\ \A t1, t2 \in Threads :
         (Returned(t1) /\ Returned(t2) /\ calls[t1].metric = calls[t2].metric)
         => (calls[t1].tok = calls[t2].tok /\ calls[t1].mdl = calls[t2].mdl)

\* C10 as stated: after a call that raised while loading, nothing is stored
\* for its metric.
C10_FailedLoadStoresNothing ==
    LET c == calls[MainThread]
    IN  (c.at = "idle" /\ c.result = "raised")
        => (tokenizer_g[c.metric] = 0 /\ model_g[c.metric] = 0)

\* C10 as amended: a call that fails while loading raises and leaves the
\* pair incomplete (no model stored; the tokenizer it loaded stays stored),
\* so the next call loads again, tokenizer first; every model load is
\* preceded by a tokenizer load of the same call; a call uses only stored
\* instances; once a model is stored no call loads again.
C10_FailedLoadLeavesPairIncomplete ==
    LET c == calls[MainThread]
    IN  /\ (c.at = "idle" /\ c.result = "raised")
            => (model_g[c.metric] = 0 /\ NeedsLoad(c.metric))
        /\ \A m \in Metrics :
             /\ HasTokenizer(m) =>
                  tok_loads[m] = model_tries[m]
                      + (IF c.at = "load_model" /\ c.metric = m THEN 1 ELSE 0)
             /\ tokenizer_g[m] = tok_loads[m]
             /\ model_loads[m] <= 1
             /\ model_g[m] = model_loads[m]
             /\ model_g[m] # 0 =>
                  ~(c.metric = m /\ c.at \in {"load_tokenizer", "load_model"})
        /\ c.at = "use_tokenizer" => tokenizer_g[c.metric] # 0
        /\ c.at = "use_model" => model_g[c.metric] # 0
        /\ Returned(MainThread) =>
             /\ c.mdl = model_g[c.metric]
             /\ c.tok = tokenizer_g[c.metric]

C10_Witness ==
    LET c == calls[MainThread]
    IN  /\ Returned(MainThread)
        /\ c.metric = "fluency"
        /\ calls_made[MainThread] = 3
        /\ model_tries["fluency"] = 2
        /\ tok_loads["fluency"] = 2
        /\ model_loads["fluency"] = 1

====
